---------------------------- MODULE Spec2Model ----------------------------
(***************************************************************************)
(* cloudtail: the historical fetch (GetEntries), the live tail (TailLogs,  *)
(* and its earlier revision tailLogs), the entry formatters and the        *)
(* command that composes them (fetchAndTailLogs).                          *)
(*                                                                         *)
(* One behaviour is one call of one entry point, chosen in Init:           *)
(*   "fetchAndTailLogs"  src/cmd/tail.go      (calls GetEntries, TailLogs) *)
(*   "GetEntries"        src/unnamed/part_000                              *)
(*   "getEntries"        src/unnamed/part_001 (earlier revision)           *)
(*   "TailLogs"          src/unnamed/part_000                              *)
(*   "tailLogs"          src/unnamed/part_001 (earlier revision)           *)
(* and, under SpecFilter, one call of                                      *)
(*   "formatFilter"      src/stream/format.go                              *)
(*                                                                         *)
(* An error value is the sequence of its messages, outermost context       *)
(* first, root cause last; the nil error is the empty sequence.            *)
(* A written line is a record [kind, phase, id]: kind "req" / "text" for   *)
(* the two entry line formats, "stopped" for "Streaming stopped            *)
(* successfully", "interrupt" for the listener's message, "noentries" for  *)
(* "No entries found."; phase tells which loop wrote it; id is the         *)
(* position of the entry in the order the backend delivered it.            *)
(* The content of an entry is drawn when the loop reads the entry.         *)
(***************************************************************************)
EXTENDS Integers, Sequences, FiniteSets, TLC

\* ---------------------------------------------------------------- bounds
\* entries the paginated iterator can yield before it is exhausted
MaxFetch == 2
\* entries the tail stream can deliver in all its responses together
MaxTail == 2
\* limits range over -MaxLimit .. MaxLimit
MaxLimit == 2

\* the default of the --limit flag
DefaultLimit == -1

Limits == (0 - MaxLimit)..MaxLimit

\* ---------------------------------------------------------------- errors
NoError == <<>>

\* fmt.Errorf("<context>: \n%w", err)
Wrap(context, err) == <<context>> \o err

\* errors.Is(err, target): target is in the chain of err
ErrorsIs(err, target) == \E i \in 1..Len(err) : err[i] = target

\* status.Code(err): the code of a gRPC status error; OK for nil
StatusCode(err) ==
    IF err = NoError THEN "OK"
    ELSE IF Len(err) = 1 /\ err[1] \in {"Canceled", "Unavailable"} THEN err[1]
    ELSE "Unknown"

WriteError == <<"write failed">>

\* the projectID and filter arguments of the calls (one value each)
ProjectID == "my-project"
FilterArg == "severity = \"ERROR\""

\* ----------------------------------------------------------------- lines
EntryKinds == {"req", "text"}

Line(kind, phase, id) == [kind |-> kind, phase |-> phase, id |-> id]

StoppedLine == Line("stopped", "tail", 0)
InterruptLine == Line("interrupt", "listener", 0)
NoEntriesLine == Line("noentries", "fetch", 0)

\* ------------------------------------------------------------- entries
\* logging.Entry as printLogEntry reads it: HTTPRequest is nil, or set with
\* a nil Request, or set with a Request; Payload is not a string, or the
\* empty string, or a text.
HistEntries == [http : {"nil", "noRequest", "full"}, payload : {"none", "empty", "text"}]

\* loggingpb.LogEntry as printTailLogEntry reads it: HttpRequest nil or
\* set; GetTextPayload() empty or not.
TailEntries == [http : BOOLEAN, text : {"", "text"}]

\* which Fprintf call of one formatter call fails (0: none)
WriteFailures == 0..2


\* ----------------------------------------------------------- formatters
FormatResult(lines, err, panic) == [lines |-> lines, err |-> err, panic |-> panic]

\* printLogEntry: the request line when HTTPRequest is set (reading
\* req.Request.Method of a nil Request panics before anything is written),
\* then the text line when Payload is a string; the first failing write
\* returns the wrapped error.
printLogEntry(entry, id, failAt) ==
    LET hasReq == entry.http # "nil"
        isString == entry.payload # "none"
        textWrite == IF hasReq THEN 2 ELSE 1
        reqLines == IF hasReq THEN <<Line("req", "fetch", id)>> ELSE <<>>
    IN  IF entry.http = "noRequest" THEN FormatResult(<<>>, NoError, TRUE)
        ELSE IF hasReq /\ failAt = 1
            THEN FormatResult(<<>>, Wrap("failed to write to output", WriteError), FALSE)
        ELSE IF isString /\ failAt = textWrite
            THEN FormatResult(reqLines, Wrap("failed to write to output", WriteError), FALSE)
        ELSE IF isString
            THEN FormatResult(reqLines \o <<Line("text", "fetch", id)>>, NoError, FALSE)
        ELSE FormatResult(reqLines, NoError, FALSE)

\* printTailLogEntry with the results of its Fprintf calls ignored
printTailLogEntryErrorsDropped(entry, id, failAt) ==
    LET hasReq == entry.http
        hasText == entry.text # ""
        textWrite == IF hasReq THEN 2 ELSE 1
        reqLines == IF hasReq /\ failAt # 1 THEN <<Line("req", "tail", id)>> ELSE <<>>
        textLines == IF hasText /\ failAt # textWrite THEN <<Line("text", "tail", id)>> ELSE <<>>
    IN  FormatResult(reqLines \o textLines, NoError, FALSE)

\* printTailLogEntry: the request line when HttpRequest is set, then the
\* text line when GetTextPayload() is not empty.
printTailLogEntry(entry, id, failAt) ==
    LET hasReq == entry.http
        hasText == entry.text # ""
        textWrite == IF hasReq THEN 2 ELSE 1
        reqLines == IF hasReq THEN <<Line("req", "tail", id)>> ELSE <<>>
    IN  IF hasReq /\ failAt = 1
            THEN FormatResult(<<>>, Wrap("failed to write to output", WriteError), FALSE)
        ELSE IF hasText /\ failAt = textWrite
            THEN FormatResult(reqLines, Wrap("failed to write to output", WriteError), FALSE)
        ELSE IF hasText
            THEN FormatResult(reqLines \o <<Line("text", "tail", id)>>, NoError, FALSE)
        ELSE FormatResult(reqLines, NoError, FALSE)

\* ------------------------------------------------------- filter builder
\* A string is the sequence of its pieces; "" is the empty sequence.
\* A *Filter is <<>> for nil and <<f>> for a pointer to the Filter f.
\* Durations and times are whole numbers; the zero time.Time is ZeroTime.
ZeroTime == 0

\* time.Now()
Now == 10

Severities == {"", "ERROR", "info"}
Durations == {0, 1, -1}
Times == {ZeroTime, 7, Now - 1}
ResourceTypes == {"", "gce_instance"}
LogNames == {"", "syslog"}

\* type Filter struct
FilterValues ==
    [Severity : Severities, Since : Durations, SinceTime : Times,
     ResourceType : ResourceTypes, LogName : LogNames]

FilterArgs == {<<>>} \cup {<<f>> : f \in FilterValues}

\* t.Format(time.RFC3339)
FormatRFC3339(t) == "T" \o ToString(t)

\* fmt.Sprintf(`<field> <op> "%s"`, value)
Clause(field, op, value) == <<field, op, "\"", value, "\"">>

\* strings.Join with the separator put after every element
RECURSIVE JoinTrailing(_, _)
JoinTrailing(elems, sep) ==
    IF elems = <<>> THEN <<>>
    ELSE Head(elems) \o sep \o JoinTrailing(Tail(elems), sep)

\* strings.Join(elems, sep): the separator between consecutive elements
RECURSIVE Join(_, _)
Join(elems, sep) ==
    IF elems = <<>> THEN <<>>
    ELSE IF Len(elems) = 1 THEN elems[1]
    ELSE Head(elems) \o sep \o Join(Tail(elems), sep)

\* the separator of formatFilter
AndJoiner == <<" AND ">>

\* formatFilter: nil gives ""; else the clauses are appended to options,
\* each under its test, and joined
formatFilter(fp) ==
    IF fp = <<>> THEN <<>>
    ELSE LET f == fp[1]
             o0 == <<>>
             o1 == IF f.Severity # ""
                   THEN Append(o0, Clause("severity", "=", f.Severity)) ELSE o0
             o2 == IF f.Since # 0
                   THEN Append(o1, Clause("timestamp", ">=", FormatRFC3339(Now - f.Since)))
                   ELSE o1
             o3 == IF f.SinceTime # ZeroTime
                   THEN Append(o2, Clause("timestamp", ">=", FormatRFC3339(f.SinceTime)))
                   ELSE o2
             o4 == IF f.ResourceType # ""
                   THEN Append(o3, Clause("resource.type", "=", f.ResourceType)) ELSE o3
             o5 == IF f.LogName # ""
                   THEN Append(o4, Clause("logName", "=", f.LogName)) ELSE o4
         IN  Join(o5, AndJoiner)

\* a call of a formatter with result r had one of its Fprintf calls fail:
\* it wrote fewer lines than the same call, full, whose writes all succeed
WriteFailedIn(r, full) == Len(r.lines) < Len(full.lines)

\* ----------------------------------------------------------------- state
VARIABLES
    call,         \* the entry point of this behaviour
    limit,        \* options.Limit / the limit argument of a direct call
    follow,       \* options.Follow
    outIsStdout,  \* out is os.Stdout (no --output file)
    pc,           \* where the (single) main flow is
    sink,         \* the lines written to out, in order
    stderr,       \* the lines written to os.Stderr
    stdout,       \* the lines written to os.Stdout when out is a file
    writeFailed,  \* a Fprintf of an entry line to out has failed
    validated,    \* fetchAndTailLogs passed its flag validation
    cmdState,     \* "idle", "running", "returned"
    cmdErr,       \* what fetchAndTailLogs returned
    fetchCalls,   \* calls of GetEntries so far
    fetchLimit,   \* the limit GetEntries was called with
    fetchState,   \* "idle", "running", "returned", "panicked"
    fetchErr,     \* what GetEntries returned
    adminClient,  \* "none", "open", "closed"
    newestFirst,  \* the NewestFirst option was added
    gcounter,     \* counter of GetEntries
    yielded,      \* entries iter.Next has returned
    fetchEnd,     \* how the fetch ended: "none", "client", "limit", "Done", "error", "write", "panic"
    tailCalls,    \* calls of the tail so far
    tailLimit,    \* the limit the tail was called with
    tailState,    \* Idle, Connecting, Streaming, Cancelled, Closed, LimitReached, Failed
    tailErr,      \* what the tail returned
    ctx,          \* "none", "live", "cancelled"
    client,       \* "none", "open", "closed"
    stream,       \* "none", "open", "closed" (send side)
    sigReg,       \* signal.Notify is in force
    lpc,          \* the listener goroutine: "none", "waiting", "signalled", "printed", "done"
    sends,        \* the requests handed to stream.Send, in order
    recvCalled,   \* stream.Recv has been called
    lastRecv,     \* what the last returned Recv gave: "none", "batch", "EOF", or the error's name
    received,     \* entries received in all responses so far
    batchLen,     \* length of the response being processed
    batchIdx,     \* entries of it already formatted
    tcounter,     \* counter of the tail
    formatted,    \* the entries handed to printTailLogEntry so far, in order
    cancelWhen,   \* where the main flow was when the listener cancelled: "none", "between", "blocked", "other"
    cancelSeen,   \* how the loop learned of the cancellation: "none", "check", "recv"
    filter,       \* the *Filter argument of formatFilter
    filterStr     \* what formatFilter returned

cmdVars == <<validated, cmdState, cmdErr>>
fetchVars == <<fetchCalls, fetchLimit, fetchState, fetchErr, adminClient, newestFirst, gcounter,
              yielded, fetchEnd>>
tailVars == <<tailCalls, tailLimit, tailState, tailErr, ctx, client, stream, sigReg, sends,
              recvCalled, lastRecv, received, batchLen, batchIdx, tcounter, formatted,
              cancelSeen>>
filterVars == <<filter, filterStr>>
\* what no step of the commands changes: the arguments, and the variables
\* of the filter builder
inputVars == <<call, limit, follow, outIsStdout, filterVars>>
outVars == <<sink, stderr, stdout, writeFailed>>
vars == <<inputVars, pc, outVars, cmdVars, fetchVars, tailVars, lpc, cancelWhen>>

EntryPoints == {"fetchAndTailLogs", "GetEntries", "getEntries", "TailLogs", "tailLogs"}

TerminalTailStates == {"Cancelled", "Closed", "LimitReached", "Failed"}

TailReturned == tailState \in TerminalTailStates

\* the tail function this behaviour runs: fetchAndTailLogs calls stream.TailLogs
TailFn == IF call = "tailLogs" THEN "tailLogs" ELSE "TailLogs"

\* the fetch function this behaviour runs: fetchAndTailLogs calls stream.GetEntries
FetchFn == IF call = "getEntries" THEN "getEntries" ELSE "GetEntries"

DirectFetch == call \in {"GetEntries", "getEntries"}

Init ==
    /\ call \in EntryPoints
    /\ filter = <<>> /\ filterStr = <<>>
    /\ limit \in Limits
    /\ follow \in BOOLEAN
    /\ outIsStdout \in BOOLEAN
    /\ (call # "fetchAndTailLogs" => ~follow)
    /\ pc = CASE call = "fetchAndTailLogs" -> "c_validate"
              [] DirectFetch -> "g_newclient"
              [] OTHER -> "t_start"
    /\ sink = <<>> /\ stderr = <<>> /\ stdout = <<>> /\ writeFailed = FALSE
    /\ validated = FALSE
    /\ cmdState = IF call = "fetchAndTailLogs" THEN "running" ELSE "idle"
    /\ cmdErr = NoError
    /\ fetchCalls = IF DirectFetch THEN 1 ELSE 0
    /\ fetchLimit = IF DirectFetch THEN limit ELSE 0
    /\ fetchState = IF DirectFetch THEN "running" ELSE "idle"
    /\ fetchErr = NoError
    /\ adminClient = "none" /\ newestFirst = FALSE /\ gcounter = 0 /\ yielded = 0
    /\ fetchEnd = "none"
    /\ tailCalls = IF call \in {"TailLogs", "tailLogs"} THEN 1 ELSE 0
    /\ tailLimit = IF call \in {"TailLogs", "tailLogs"} THEN limit ELSE 0
    /\ tailState = "Idle" /\ tailErr = NoError
    /\ ctx = "none" /\ client = "none" /\ stream = "none" /\ sigReg = FALSE
    /\ lpc = "none" /\ sends = <<>> /\ recvCalled = FALSE /\ lastRecv = "none"
    /\ received = 0 /\ batchLen = 0 /\ batchIdx = 0 /\ tcounter = 0
    /\ formatted = <<>>
    /\ cancelWhen = "none" /\ cancelSeen = "none"


\* ------------------------------------------------- shared code decisions
\* LimitReached without its `limit > 0` half
LimitReachedNoPositiveTest(lim, counter) == counter >= lim

\* `limit > 0 && counter >= limit`, the exit test of both loops
LimitReached(lim, counter) == lim > 0 /\ counter >= lim

\* `options.Limit != -1 && options.Limit < 0`
InvalidLimit(lim) == lim # DefaultLimit /\ lim < 0

\* the limit fetchAndTailLogs hands to GetEntries
FetchLimitArg(lim) == lim

\* the limit fetchAndTailLogs hands to TailLogs, k being what the fetch emitted
TailLimitArg(lim, k) == lim

\* a deferred Close / CloseSend of a handle
Released(handle) == IF handle = "open" THEN "closed" ELSE handle

\* ------------------------------------------------------ fetchAndTailLogs
CmdReturn(err) ==
    /\ cmdState' = "returned"
    /\ cmdErr' = err
    /\ pc' = "done"

\* flag validation: severity, since and since-time (one input), then limit
CmdValidate ==
    /\ pc = "c_validate"
    /\ \E flagsOk \in BOOLEAN :
         IF ~flagsOk
         THEN CmdReturn(<<"invalid value for flag">>) /\ UNCHANGED validated
         ELSE IF InvalidLimit(limit)
         THEN CmdReturn(<<"invalid value for --limit flag">>) /\ UNCHANGED validated
         ELSE /\ validated' = TRUE
              /\ pc' = "c_output"
              /\ UNCHANGED <<cmdState, cmdErr>>
    /\ UNCHANGED <<inputVars, outVars, fetchVars, tailVars, lpc, cancelWhen>>

\* build the filter, set the output, call stream.GetEntries
CmdOpenOutput ==
    /\ pc = "c_output"
    /\ \E opened \in BOOLEAN :
         IF ~outIsStdout /\ ~opened
         THEN /\ CmdReturn(Wrap("could not open output file", <<"open failed">>))
              /\ UNCHANGED <<fetchCalls, fetchLimit, fetchState>>
         ELSE /\ fetchCalls' = fetchCalls + 1
              /\ fetchLimit' = FetchLimitArg(limit)
              /\ fetchState' = "running"
              /\ pc' = "g_newclient"
              /\ UNCHANGED <<cmdState, cmdErr>>
    /\ UNCHANGED <<inputVars, outVars, validated, fetchErr, adminClient, newestFirst,
                   gcounter, yielded, fetchEnd, tailVars, lpc, cancelWhen>>

\* AfterFetch with the two tests in the other order
AfterFetchFollowFirst(err, fol) ==
    IF fol THEN "tail" ELSE IF err # NoError THEN "fail" ELSE "finish"

\* what fetchAndTailLogs does once GetEntries returned err: `if err != nil`
\* comes first, then `if options.Follow`
AfterFetch(err, fol) ==
    IF err # NoError THEN "fail" ELSE IF fol THEN "tail" ELSE "finish"

\* GetEntries has returned: wrap its error, or tail if --follow, or finish
CmdAfterFetch ==
    /\ pc = "c_afterFetch"
    /\ IF AfterFetch(fetchErr, follow) = "fail"
       THEN /\ CmdReturn(Wrap("error fetching log entries", fetchErr))
            /\ UNCHANGED <<tailCalls, tailLimit>>
       ELSE IF AfterFetch(fetchErr, follow) = "tail"
       THEN /\ tailCalls' = tailCalls + 1
            /\ tailLimit' = TailLimitArg(limit, gcounter)
            /\ pc' = "t_start"
            /\ UNCHANGED <<cmdState, cmdErr>>
       ELSE /\ CmdReturn(NoError)
            /\ UNCHANGED <<tailCalls, tailLimit>>
    /\ UNCHANGED <<inputVars, outVars, validated, fetchVars, tailState, tailErr, ctx, client,
                   stream, sigReg, sends, recvCalled, lastRecv, received, batchLen, batchIdx,
                   tcounter, formatted, cancelSeen, lpc, cancelWhen>>

\* TailLogs has returned: wrap its error or finish
CmdAfterTail ==
    /\ pc = "c_afterTail"
    /\ IF tailErr # NoError
       THEN CmdReturn(Wrap("error tailing log entries", tailErr))
       ELSE CmdReturn(NoError)
    /\ UNCHANGED <<inputVars, outVars, validated, fetchVars, tailVars, lpc, cancelWhen>>

\* ------------------------------------------------------------ GetEntries
\* return err from GetEntries; the deferred adminClient.Close() runs
FetchReturn(err, adm) ==
    /\ fetchState' = "returned"
    /\ fetchErr' = err
    /\ adminClient' = Released(adm)
    /\ pc' = IF call = "fetchAndTailLogs" THEN "c_afterFetch" ELSE "done"

\* logadmin.NewClient, the options, adminClient.Entries, counter := 0
GetNewClient ==
    /\ pc = "g_newclient"
    /\ \E ok \in BOOLEAN :
         IF ~ok
         THEN /\ FetchReturn(Wrap("failed to create logadmin client", <<"Unavailable">>), adminClient)
              /\ fetchEnd' = "client"
              /\ UNCHANGED <<newestFirst, gcounter>>
         ELSE /\ adminClient' = "open"
              /\ newestFirst' = (fetchLimit > 0)
              /\ gcounter' = 0
              /\ pc' = "g_loop"
              /\ UNCHANGED <<fetchState, fetchErr, fetchEnd>>
    /\ UNCHANGED <<inputVars, outVars, cmdVars, fetchCalls, fetchLimit, yielded, tailVars,
                   lpc, cancelWhen>>

\* top of the loop with the limit reached: break, return nil
GetLimitStop ==
    /\ pc = "g_loop"
    /\ LimitReached(fetchLimit, gcounter)
    /\ FetchReturn(NoError, adminClient)
    /\ fetchEnd' = "limit"
    /\ UNCHANGED <<inputVars, outVars, cmdVars, fetchCalls, fetchLimit, newestFirst, gcounter,
                   yielded, tailVars, lpc, cancelWhen>>

\* whether the iterator.Done branch has the `if counter == 0` notice:
\* GetEntries has it, getEntries breaks at once
WritesNotice(fn) == fn = "GetEntries"

\* what GetEntries writes to os.Stderr when iter.Next reports iterator.Done
NoticeOnDone(counter) == IF counter = 0 THEN <<NoEntriesLine>> ELSE <<>>

\* iter.Next returns iterator.Done: the notice if nothing was counted, break
GetNextDone ==
    /\ pc = "g_loop"
    /\ ~LimitReached(fetchLimit, gcounter)
    /\ stderr' = stderr \o (IF WritesNotice(FetchFn) THEN NoticeOnDone(gcounter) ELSE <<>>)
    /\ FetchReturn(NoError, adminClient)
    /\ fetchEnd' = "Done"
    /\ UNCHANGED <<inputVars, sink, stdout, writeFailed, cmdVars, fetchCalls, fetchLimit,
                   newestFirst,
                   gcounter, yielded, tailVars, lpc, cancelWhen>>

\* NextErrorReturn with a context put around the error
NextErrorReturnWrapped(err) == Wrap("iter.Next error", err)

\* `if err != nil { return err }` after iter.Next
NextErrorReturn(err) == err

\* iter.Next returns another error: it is returned as it is
GetNextError ==
    /\ pc = "g_loop"
    /\ ~LimitReached(fetchLimit, gcounter)
    /\ FetchReturn(NextErrorReturn(<<"PermissionDenied">>), adminClient)
    /\ fetchEnd' = "error"
    /\ UNCHANGED <<inputVars, outVars, cmdVars, fetchCalls, fetchLimit, newestFirst, gcounter,
                   yielded, tailVars, lpc, cancelWhen>>

\* CountEntry with the increment left out
CountEntryNot(counter) == counter

\* counter++
CountEntry(counter) == counter + 1

\* iter.Next returns an entry: printLogEntry, then counter++
GetNextEntry ==
    /\ pc = "g_loop"
    /\ ~LimitReached(fetchLimit, gcounter)
    /\ yielded < MaxFetch
    /\ \E entry \in HistEntries, failAt \in WriteFailures :
         LET r == printLogEntry(entry, yielded + 1, failAt)
         IN  /\ yielded' = yielded + 1
             /\ sink' = sink \o r.lines
             /\ writeFailed' =
                  (writeFailed \/ WriteFailedIn(r, printLogEntry(entry, yielded + 1, 0)))
             /\ IF r.panic
                THEN /\ fetchState' = "panicked"
                     /\ fetchEnd' = "panic"
                     /\ adminClient' = Released(adminClient)
                     /\ pc' = "panic"
                     /\ UNCHANGED <<fetchErr, gcounter>>
                ELSE IF r.err # NoError
                THEN FetchReturn(r.err, adminClient) /\ fetchEnd' = "write" /\ UNCHANGED gcounter
                ELSE /\ gcounter' = CountEntry(gcounter)
                     /\ UNCHANGED <<pc, fetchState, fetchErr, adminClient, fetchEnd>>
    /\ UNCHANGED <<inputVars, stderr, stdout, cmdVars, fetchCalls, fetchLimit, newestFirst,
                   tailVars, lpc, cancelWhen>>


\* -------------------------------------------------- TailLogs / tailLogs
\* DeferredCloseSend with the defer statement left out
CloseSendNotDeferred(st) == st

\* the deferred calls of the tail, run at every return:
\* stream.CloseSend(), client.Close(), signal.Stop(signalChan), cancel()
DeferredCloseSend(st) == Released(st)
DeferredClientClose(cl) == Released(cl)
DeferredCancel(c) == "cancelled"

\* return err from the tail in terminal state `state`; cl and st are the
\* client and the stream as this step leaves them before the deferred calls
TailReturn(state, err, cl, st) ==
    /\ tailState' = state
    /\ tailErr' = err
    /\ stream' = DeferredCloseSend(st)
    /\ client' = DeferredClientClose(cl)
    /\ sigReg' = FALSE
    /\ ctx' = DeferredCancel(ctx)
    /\ pc' = IF call = "fetchAndTailLogs" THEN "c_afterTail" ELSE "done"

\* the error of a call made with context c that failed
CallError(c) == IF c = "cancelled" THEN <<"Canceled">> ELSE <<"Unavailable">>

\* context.WithCancel, signal.Notify, the listener goroutine, loggingv2.NewClient
TailStart ==
    /\ pc = "t_start"
    /\ lpc' = "waiting"
    /\ \E ok \in BOOLEAN :
         IF ~ok
         THEN /\ TailReturn("Failed", Wrap("NewClient error", <<"Unavailable">>), client, stream)
         ELSE /\ ctx' = "live"
              /\ sigReg' = TRUE
              /\ client' = "open"
              /\ tailState' = "Connecting"
              /\ pc' = "t_open"
              /\ UNCHANGED <<tailErr, stream>>
    /\ UNCHANGED <<inputVars, outVars, cmdVars, fetchVars, tailCalls, tailLimit, sends,
                   recvCalled, lastRecv, received, batchLen, batchIdx, tcounter, formatted, cancelSeen,
                   cancelWhen>>

\* client.TailLogEntries(ctx)
TailOpenStream ==
    /\ pc = "t_open"
    /\ \E ok \in BOOLEAN :
         IF ~ok
         THEN TailReturn("Failed", Wrap("TailLogEntries error", CallError(ctx)), client, stream)
         ELSE /\ stream' = "open"
              /\ pc' = "t_send"
              /\ UNCHANGED <<tailState, tailErr, client, sigReg, ctx>>
    /\ UNCHANGED <<inputVars, outVars, cmdVars, fetchVars, tailCalls, tailLimit, sends,
                   recvCalled, lastRecv, received, batchLen, batchIdx, tcounter, formatted, cancelSeen,
                   lpc, cancelWhen>>

\* req: ResourceNames is {"projects/" + projectID}, Filter is the filter
SubscribeRequest ==
    [resourceNames |-> <<"projects/" \o ProjectID>>, filter |-> FilterArg]

\* stream.Send(req), counter := 0
TailSend ==
    /\ pc = "t_send"
    /\ \E ok \in BOOLEAN :
         IF ~ok
         THEN /\ TailReturn("Failed", Wrap("stream.Send error", CallError(ctx)), client, stream)
              /\ sends' = Append(sends, SubscribeRequest)
              /\ UNCHANGED <<tcounter, formatted>>
         ELSE /\ sends' = Append(sends, SubscribeRequest)
              /\ tcounter' = 0
              /\ UNCHANGED formatted
              /\ tailState' = "Streaming"
              /\ pc' = "t_loop"
              /\ UNCHANGED <<tailErr, client, stream, sigReg, ctx>>
    /\ UNCHANGED <<inputVars, outVars, cmdVars, fetchVars, tailCalls, tailLimit,
                   recvCalled, lastRecv, received, batchLen, batchIdx, cancelSeen,
                   lpc, cancelWhen>>

\* whether the top of the loop tests ctx.Err() before it calls Recv
ChecksContextFirst(fn) == fn = "tailLogs"

\* fmt.Fprintln(out, "Streaming stopped successfully"): its result is
\* ignored; failed tells whether the write failed
WriteStopped(failed) == IF failed THEN <<>> ELSE <<StoppedLine>>

\* top of the loop: tailLogs returns nil when ctx.Err() != nil; otherwise
\* stream.Recv() is called and blocks
TailLoopTop ==
    /\ pc = "t_loop"
    /\ IF ChecksContextFirst(TailFn) /\ ctx = "cancelled"
       THEN /\ \E failed \in BOOLEAN : sink' = sink \o WriteStopped(failed)
            /\ cancelSeen' = "check"
            /\ TailReturn("Cancelled", NoError, client, stream)
            /\ UNCHANGED recvCalled
       ELSE /\ recvCalled' = TRUE
            /\ pc' = "t_recv"
            /\ UNCHANGED <<sink, cancelSeen, tailState, tailErr, client, stream, sigReg, ctx>>
    /\ UNCHANGED <<inputVars, stderr, stdout, writeFailed, cmdVars, fetchVars, tailCalls,
                   tailLimit, sends,
                   lastRecv, received, batchLen, batchIdx, tcounter, formatted, lpc, cancelWhen>>

\* RecvErrorState without the io.EOF test
RecvErrorStateNoEOF(fn, err) ==
    IF fn = "TailLogs" /\ StatusCode(err) = "Canceled" THEN "Cancelled" ELSE "Failed"

\* what the loop does with a Recv error:
\*   TailLogs: status code Canceled -> confirmation, break; io.EOF -> break;
\*             otherwise return the wrapped error
\*   tailLogs: io.EOF -> break; otherwise return the wrapped error
RecvErrorState(fn, err) ==
    IF fn = "TailLogs" /\ StatusCode(err) = "Canceled" THEN "Cancelled"
    ELSE IF ErrorsIs(err, "EOF") THEN "Closed"
    ELSE "Failed"

\* RecvErrorReturn without the fmt.Errorf around the error
RecvErrorReturnUnwrapped(fn, err) ==
    IF RecvErrorState(fn, err) = "Failed" THEN err ELSE NoError

\* the value returned after a Recv error
RecvErrorReturn(fn, err) ==
    IF RecvErrorState(fn, err) = "Failed" THEN Wrap("stream.Recv error", err) ELSE NoError

\* the errors a blocked Recv can return: the cancellation status once the
\* context is cancelled, else end of input or a transport error
RecvErrors == IF ctx = "cancelled" THEN {<<"Canceled">>} ELSE {<<"EOF">>, <<"Unavailable">>}

\* stream.Recv() returns an error
TailRecvError ==
    /\ pc = "t_recv"
    /\ \E err \in RecvErrors :
         LET state == RecvErrorState(TailFn, err)
         IN  /\ lastRecv' = err[1]
             /\ cancelSeen' = IF err = <<"Canceled">> THEN "recv" ELSE cancelSeen
             /\ IF state = "Cancelled"
                THEN \E failed \in BOOLEAN : sink' = sink \o WriteStopped(failed)
                ELSE sink' = sink
             /\ TailReturn(state, RecvErrorReturn(TailFn, err), client, stream)
    /\ UNCHANGED <<inputVars, stderr, stdout, writeFailed, cmdVars, fetchVars, tailCalls,
                   tailLimit, sends,
                   recvCalled, received, batchLen, batchIdx, tcounter, formatted, lpc, cancelWhen>>

\* RecvDelivers with responses still delivered after the cancellation
RecvDeliversAlways(c) == TRUE

\* whether a Recv on a stream opened with context c can return a response:
\* once c is cancelled it returns the cancellation status
RecvDelivers(c) == c = "live"

\* stream.Recv() returns a response of n entries: none -> continue
TailRecvBatch ==
    /\ pc = "t_recv"
    /\ RecvDelivers(ctx)
    /\ \E n \in 0..(MaxTail - received) :
         /\ lastRecv' = "batch"
         /\ received' = received + n
         /\ batchLen' = n
         /\ batchIdx' = 0
         /\ pc' = IF n = 0 THEN "t_loop" ELSE "t_print"
    /\ UNCHANGED <<inputVars, outVars, cmdVars, fetchVars, tailCalls, tailLimit, tailState,
                   tailErr, ctx, client, stream, sigReg, sends, recvCalled, tcounter, formatted,
                   cancelSeen, lpc, cancelWhen>>

\* one turn of `for _, entry := range entries`: printTailLogEntry
TailPrint ==
    /\ pc = "t_print"
    /\ \E entry \in TailEntries, failAt \in WriteFailures :
         LET r == printTailLogEntry(entry, received - batchLen + batchIdx + 1, failAt)
         IN  /\ sink' = sink \o r.lines
             /\ writeFailed' =
                  (writeFailed \/ WriteFailedIn(r, printTailLogEntry(entry, batchIdx, 0)))
             /\ formatted' = Append(formatted, entry)
             /\ IF r.err # NoError
                THEN TailReturn("Failed", r.err, client, stream) /\ UNCHANGED batchIdx
                ELSE /\ batchIdx' = batchIdx + 1
                     /\ pc' = IF batchIdx + 1 = batchLen THEN "t_account" ELSE "t_print"
                     /\ UNCHANGED <<tailState, tailErr, client, stream, sigReg, ctx>>
    /\ UNCHANGED <<inputVars, stderr, stdout, cmdVars, fetchVars, tailCalls, tailLimit, sends,
                   recvCalled, lastRecv, received, batchLen, tcounter, cancelSeen, lpc,
                   cancelWhen>>

\* Accumulate counting the response, not its entries
AccumulateOne(counter, n) == counter + 1

\* counter += len(resp.GetEntries())
Accumulate(counter, n) == counter + n

\* after the batch: add its length to counter, break if the limit is reached
TailAccount ==
    /\ pc = "t_account"
    /\ tcounter' = Accumulate(tcounter, batchLen)
    /\ UNCHANGED formatted
    /\ IF LimitReached(tailLimit, tcounter')
       THEN TailReturn("LimitReached", NoError, client, stream)
       ELSE /\ pc' = "t_loop"
            /\ UNCHANGED <<tailState, tailErr, client, stream, sigReg, ctx>>
    /\ UNCHANGED <<inputVars, outVars, cmdVars, fetchVars, tailCalls, tailLimit, sends,
                   recvCalled, lastRecv, received, batchLen, batchIdx, cancelSeen, lpc,
                   cancelWhen>>

\* ----------------------------------------------------- the listener
\* an interrupt or SIGTERM is delivered while signal.Notify is in force,
\* and the goroutine's `<-signalChan` returns
Signal ==
    /\ sigReg
    /\ lpc = "waiting"
    /\ lpc' = "signalled"
    /\ UNCHANGED <<inputVars, pc, outVars, cmdVars, fetchVars, tailVars, cancelWhen>>

\* fmt.Println("\nReceived an interrupt signal, stopping stream..."): to os.Stdout
ListenerPrint ==
    /\ lpc = "signalled"
    /\ lpc' = "printed"
    /\ IF outIsStdout
       THEN sink' = Append(sink, InterruptLine) /\ UNCHANGED stdout
       ELSE stdout' = Append(stdout, InterruptLine) /\ UNCHANGED sink
    /\ UNCHANGED <<inputVars, pc, stderr, writeFailed, cmdVars, fetchVars, tailVars, cancelWhen>>

\* cancel()
ListenerCancel ==
    /\ lpc = "printed"
    /\ lpc' = "done"
    /\ ctx' = "cancelled"
    /\ cancelWhen' = IF ctx # "live" THEN cancelWhen
                     ELSE IF pc = "t_recv" THEN "blocked"
                     ELSE IF tailState = "Streaming" THEN "between"
                     ELSE "other"
    /\ UNCHANGED <<inputVars, pc, outVars, cmdVars, fetchVars, tailCalls, tailLimit,
                   tailState, tailErr, client, stream, sigReg, sends, recvCalled, lastRecv,
                   received, batchLen, batchIdx, tcounter, formatted, cancelSeen>>

\* ------------------------------------------------------- specification
Next ==
    \/ CmdValidate \/ CmdOpenOutput \/ CmdAfterFetch \/ CmdAfterTail
    \/ GetNewClient \/ GetLimitStop \/ GetNextDone \/ GetNextError \/ GetNextEntry
    \/ TailStart \/ TailOpenStream \/ TailSend \/ TailLoopTop
    \/ TailRecvError \/ TailRecvBatch \/ TailPrint \/ TailAccount
    \/ Signal \/ ListenerPrint \/ ListenerCancel

Spec == Init /\ [][Next]_vars

\* ------------------------------------------- one call of formatFilter
InitFilter ==
    /\ call = "formatFilter"
    /\ filter \in FilterArgs
    /\ filterStr = <<>>
    /\ pc = "f_format"
    /\ limit = DefaultLimit /\ follow = FALSE /\ outIsStdout = TRUE
    /\ sink = <<>> /\ stderr = <<>> /\ stdout = <<>> /\ writeFailed = FALSE
    /\ validated = FALSE /\ cmdState = "idle" /\ cmdErr = NoError
    /\ fetchCalls = 0 /\ fetchLimit = 0 /\ fetchState = "idle" /\ fetchErr = NoError
    /\ adminClient = "none" /\ newestFirst = FALSE /\ gcounter = 0 /\ yielded = 0
    /\ fetchEnd = "none"
    /\ tailCalls = 0 /\ tailLimit = 0 /\ tailState = "Idle" /\ tailErr = NoError
    /\ ctx = "none" /\ client = "none" /\ stream = "none" /\ sigReg = FALSE
    /\ lpc = "none" /\ sends = <<>> /\ recvCalled = FALSE /\ lastRecv = "none"
    /\ received = 0 /\ batchLen = 0 /\ batchIdx = 0 /\ tcounter = 0
    /\ formatted = <<>>
    /\ cancelWhen = "none" /\ cancelSeen = "none"

\* the call returns formatFilter(filter)
FormatFilter ==
    /\ pc = "f_format"
    /\ filterStr' = formatFilter(filter)
    /\ pc' = "done"
    /\ UNCHANGED <<call, limit, follow, outIsStdout, filter, outVars, cmdVars, fetchVars,
                   tailVars, lpc, cancelWhen>>

NextFilter == FormatFilter

SpecFilter == InitFilter /\ [][NextFilter]_vars

\* ------------------------- one direct call of the tail, with fairness
InitTail == Init /\ call \in {"TailLogs", "tailLogs"}

NextTail ==
    \/ TailStart \/ TailOpenStream \/ TailSend \/ TailLoopTop
    \/ TailRecvError \/ TailRecvBatch \/ TailPrint \/ TailAccount
    \/ Signal \/ ListenerPrint \/ ListenerCancel

\* the goroutine that runs the loop keeps running: the top of the loop, the
\* range over a batch and the accounting are always taken in the end; and a
\* Recv on a cancelled context returns
TailFairness ==
    /\ WF_vars(TailLoopTop)
    /\ WF_vars(TailPrint)
    /\ WF_vars(TailAccount)
    /\ WF_vars(TailRecvError /\ ctx = "cancelled")

SpecTailLive == InitTail /\ [][NextTail]_vars /\ TailFairness


\* ------------------------------------------------------------- helpers
Range(seq) == {seq[i] : i \in 1..Len(seq)}

IsPrefix(a, b) == Len(a) <= Len(b) /\ \A i \in 1..Len(a) : a[i] = b[i]

IsEntryLine(l) == l.kind \in EntryKinds

\* the entry lines GetEntries wrote, and those the tail wrote
FetchEntryLines == SelectSeq(sink, LAMBDA l : IsEntryLine(l) /\ l.phase = "fetch")
TailEntryLines == SelectSeq(sink, LAMBDA l : IsEntryLine(l) /\ l.phase = "tail")

\* what the tail itself has written to out
TailWritten == SelectSeq(sink, LAMBDA l : l.phase = "tail")

\* the lines printTailLogEntry gives for entries[from..], numbered from `from`
RECURSIVE RenderTail(_, _)
RenderTail(entries, from) ==
    IF from > Len(entries) THEN <<>>
    ELSE printTailLogEntry(entries[from], from, 0).lines \o RenderTail(entries, from + 1)

TailStarted == tailCalls > 0 /\ tailState # "Idle"

\* ------------------------------------------------------------------ C1
\* C1: with a limit L > 0, one call of the tail writes at most L entry
\* lines to the sink, and LimitReached returns no error.
C1_TailWritesAtMostLimit ==
    (tailCalls > 0 /\ tailLimit > 0) =>
        /\ Len(TailEntryLines) <= tailLimit
        /\ (tailState = "LimitReached" => tailErr = NoError)

\* ------------------------------------------------------------------ C2
\* C2: with a limit L > 0, one call of GetEntries writes at most L lines to
\* the sink, and returns nil once L entries have been emitted.
C2_FetchWritesAtMostLimit ==
    (fetchCalls > 0 /\ fetchLimit > 0) =>
        /\ Len(FetchEntryLines) <= fetchLimit
        /\ (fetchState = "returned" /\ gcounter >= fetchLimit => fetchErr = NoError)

\* ------------------------------------------------------------------ C3
\* C3: a cancellation triggered while the tail is Streaming ends the tail
\* with no error, (a) when it is triggered between receives and detected
\* before the next receive, and (b) when it is triggered while a receive is
\* blocked and that receive returns the cancellation error.
C3_CancellationReturnsNoError ==
    TailReturned =>
        /\ (cancelWhen = "between" /\ cancelSeen = "check" => tailErr = NoError)
        /\ (cancelWhen = "blocked" /\ cancelSeen = "recv" => tailErr = NoError)

\* C3, for the revision fetchAndTailLogs calls: in TailLogs every observed
\* cancellation ends the tail in Cancelled with no error.
TailLogsCancellationIsClean ==
    (TailFn = "TailLogs" /\ TailReturned /\ cancelSeen # "none") =>
        (tailState = "Cancelled" /\ tailErr = NoError)

\* ------------------------------------------------------------------ C4
\* C4: when the tail ends in Cancelled, the confirmation message is on the
\* diagnostic stream and not in the data sink.
C4_ConfirmationOnDiagnosticStream ==
    tailState = "Cancelled" =>
        /\ StoppedLine \notin Range(sink)
        /\ StoppedLine \in Range(stderr)

\* ------------------------------------------------------------------ C5
\* C5: with follow and a limit L > 0, fetchAndTailLogs starts the tail with
\* the budget L - k left by the k entries the fetch emitted, so that fetch
\* and tail together emit at most L entries.
C5_TailGetsRemainingBudget ==
    (call = "fetchAndTailLogs" /\ limit > 0 /\ tailCalls > 0) =>
        /\ tailLimit = limit - gcounter
        /\ gcounter + Len(formatted) <= limit


\* ------------------------------------------------------------------ C6
OutputOpenFailed == cmdErr = Wrap("could not open output file", <<"open failed">>)

C6_Order ==
    /\ fetchCalls <= 1 /\ tailCalls <= 1
    /\ (tailCalls > 0 => (follow /\ fetchState = "returned" /\ fetchErr = NoError))
    /\ (fetchState = "returned" /\ fetchErr # NoError) =>
          /\ tailCalls = 0
          /\ (cmdState = "returned" => cmdErr = Wrap("error fetching log entries", fetchErr))

\* C6 as stated: in every run of fetchAndTailLogs that passes validation the
\* fetch runs exactly once and before any tail; the tail starts only with
\* follow and only after the fetch returned without error; a fetch error
\* is returned and the tail never starts.
C6_FetchExactlyOnceThenTail ==
    call = "fetchAndTailLogs" =>
        /\ C6_Order
        /\ (validated /\ cmdState = "returned" => fetchCalls = 1)

\* C6 as amended: the same, except that a run that passes validation and
\* then fails to open the --output file returns that error and runs
\* neither the fetch nor the tail; in every other run that passes
\* validation the fetch runs exactly once.
C6_FetchOnceUnlessOutputFails ==
    call = "fetchAndTailLogs" =>
        /\ C6_Order
        /\ (validated /\ cmdState = "returned") =>
              \/ (fetchCalls = 1 /\ ~OutputOpenFailed)
              \/ (OutputOpenFailed /\ fetchCalls = 0 /\ tailCalls = 0)

C6_Witness ==
    /\ call = "fetchAndTailLogs" /\ validated /\ cmdState = "returned"
    /\ fetchCalls = 1 /\ tailCalls = 1 /\ TailReturned /\ cmdErr = NoError
    /\ FetchEntryLines # <<>> /\ TailEntryLines # <<>>

\* ------------------------------------------------------------------ C7
\* C7: in the live tail the lines the tail has put in the sink are at every
\* moment the in-order rendering of a prefix of the received entries:
\* nothing twice, nothing out of order, and cancellation neither removes
\* nor repeats a line.
C7_SinkIsRenderingOfReceivedPrefix ==
    tailCalls > 0 =>
        /\ Len(formatted) <= received
        /\ IsPrefix(TailWritten, RenderTail(formatted, 1))

\* C7 for the entry lines alone: they are in receive order, none twice.
TailEntryLinesInReceiveOrder ==
    tailCalls > 0 =>
        /\ Len(formatted) <= received
        /\ IsPrefix(TailEntryLines, RenderTail(formatted, 1))

\* ------------------------------------------------------------------ C8
\* C8: a Recv that reports io.EOF ends the tail in Closed with no error, and
\* that step writes nothing to the sink, to stderr or to stdout.
C8_EOFClosesSilently ==
    [][(pc = "t_recv" /\ lastRecv' = "EOF") =>
          /\ tailState' = "Closed"
          /\ tailErr' = NoError
          /\ sink' = sink /\ stderr' = stderr /\ stdout' = stdout]_vars

C8_Witness ==
    tailState = "Closed" /\ lastRecv = "EOF" /\ TailEntryLines # <<>> /\ tailErr = NoError

\* ------------------------------------------------------------------ C9
\* C9: a Recv error that is neither the cancellation nor io.EOF ends the
\* tail at once in Failed, returning the error wrapped in "stream.Recv
\* error"; after that the tail receives nothing and writes nothing; and the
\* tail returns a non-nil error only in Failed.
C9_RecvFailureIsWrappedAndFinal ==
    /\ [][(pc = "t_recv" /\ lastRecv' \notin {"none", "batch", "EOF", "Canceled"}) =>
             /\ tailState' = "Failed"
             /\ tailErr' = Wrap("stream.Recv error", <<lastRecv'>>)
             /\ sink' = sink /\ stderr' = stderr /\ stdout' = stdout]_vars
    /\ [][tailState = "Failed" =>
             /\ pc' \notin {"t_loop", "t_recv", "t_print", "t_account"}
             /\ lastRecv' = lastRecv
             /\ TailWritten' = TailWritten]_vars
    /\ [](TailReturned /\ tailErr # NoError => tailState = "Failed")

C9_Witness ==
    /\ tailState = "Failed" /\ lastRecv = "Unavailable"
    /\ tailErr = <<"stream.Recv error", "Unavailable">>
    /\ TailEntryLines # <<>>

\* ----------------------------------------------------------------- C10
\* C10: on every exit of the tail the send side of an opened stream is
\* closed and the context is cancelled.
C10_ExitsReleaseStreamAndContext ==
    TailReturned => (stream # "open" /\ ctx = "cancelled")

C10_Witness ==
    /\ tailState = "Failed" /\ tailErr = <<"failed to write to output", "write failed">>
    /\ stream = "closed" /\ ctx = "cancelled" /\ cancelWhen = "none"

\* ------------------------------------------------------------------ C11
\* the fetch has returned after iter.Next reported iterator.Done
FetchExhausted == fetchState = "returned" /\ fetchEnd = "Done"

NoticeWritten == NoEntriesLine \in Range(stderr)

\* C12: a fetch that has returned has written the "No entries found."
\* notice if and only if it ended by exhaustion with no line written to
\* out; the notice is on os.Stderr and never in out, and a fetch that wrote
\* it returned nil.
C12_NoticeIffExhaustedWithNoLines ==
    fetchState = "returned" =>
        /\ NoticeWritten <=> (fetchEnd = "Done" /\ FetchEntryLines = <<>>)
        /\ NoEntriesLine \notin Range(sink)
        /\ NoticeWritten => fetchErr = NoError

\* what GetEntries (not getEntries) does: the notice if and only if the
\* fetch ended by exhaustion with counter = 0, on os.Stderr only, nil returned
GetEntriesNoticeIffNothingCounted ==
    /\ (fetchState = "returned" /\ FetchFn = "GetEntries") =>
           (NoticeWritten <=> (fetchEnd = "Done" /\ gcounter = 0))
    /\ NoEntriesLine \notin Range(sink) /\ NoEntriesLine \notin Range(stdout)
    /\ NoticeWritten => (fetchState = "returned" /\ fetchErr = NoError)
    /\ FetchFn = "getEntries" => ~NoticeWritten

\* ------------------------------------------------------------------ C13
\* C13: the step in which iter.Next returns an error other than
\* iterator.Done writes nothing, reads nothing more and makes the fetch
\* return exactly that error, with no context around it; from then on the
\* fetch reads no entry and writes no line, its result does not change, and
\* what was in the sink stays there.
C13_IteratorErrorReturnedAsIs ==
    /\ [][(fetchEnd # "error" /\ fetchEnd' = "error") =>
             /\ fetchState' = "returned"
             /\ fetchErr' = <<"PermissionDenied">>
             /\ sink' = sink /\ yielded' = yielded /\ gcounter' = gcounter]_vars
    /\ [][fetchEnd = "error" =>
             /\ fetchEnd' = "error" /\ fetchErr' = fetchErr
             /\ yielded' = yielded /\ FetchEntryLines' = FetchEntryLines
             /\ IsPrefix(sink, sink')]_vars

\* the iterator failed after two lines were written
C13_Witness ==
    /\ fetchEnd = "error" /\ fetchState = "returned"
    /\ fetchErr = <<"PermissionDenied">>
    /\ Len(FetchEntryLines) = 2 /\ yielded = 2

\* ------------------------------------------------------------------ C14
\* C14: the step in which a Fprintf of an entry line fails makes the
\* running loop return a non-nil error (the fetch returns it, the tail goes
\* to Failed with it) and keeps the lines written before; from then on no
\* entry is read or formatted and no line is written by the fetch or the
\* tail; and the failed operation never ends as a clean cancellation (no
\* confirmation line, no nil).
C14_WriteFailureAbortsTheLoop ==
    /\ [][(~writeFailed /\ writeFailed') =>
             /\ IsPrefix(sink, sink')
             /\ pc = "g_loop" => (fetchState' = "returned" /\ fetchErr' # NoError)
             /\ pc = "t_print" => (tailState' = "Failed" /\ tailErr' # NoError)
             /\ pc \in {"g_loop", "t_print"}]_vars
    /\ [][writeFailed =>
             /\ yielded' = yielded /\ received' = received /\ formatted' = formatted
             /\ FetchEntryLines' = FetchEntryLines /\ TailWritten' = TailWritten
             /\ IsPrefix(sink, sink')
             /\ fetchErr' = fetchErr /\ tailErr' = tailErr /\ tailState' = tailState]_vars
    /\ [](writeFailed =>
             /\ fetchEnd = "write" => fetchErr # NoError
             /\ fetchEnd # "write" =>
                   (tailState = "Failed" /\ tailErr # NoError /\ StoppedLine \notin Range(sink)))

\* a write failed in the middle of a tail batch: the second entry of a
\* response of two, after the first was written
C14_Witness ==
    /\ writeFailed /\ tailState = "Failed" /\ batchLen = 2 /\ batchIdx = 1
    /\ Len(formatted) = 2 /\ Len(TailEntryLines) >= 1
    /\ tailErr = <<"failed to write to output", "write failed">>

\* ------------------------------------------------------------------ C15
\* C15: the formatter writes at most one line per entry, in both loops: no
\* two entry lines of the sink written by the same loop are of the same
\* entry (an entry with an HTTP request gives its request line only, an
\* entry without one its text line only).
C15_AtMostOneLinePerEntry ==
    \A i, j \in 1..Len(sink) :
        (i < j /\ IsEntryLine(sink[i]) /\ IsEntryLine(sink[j])
           /\ sink[i].phase = sink[j].phase) => sink[i].id # sink[j].id

\* what the formatters do: at most two lines per entry, the request line
\* first and then the text line
AtMostTwoLinesPerEntry ==
    \A i, j \in 1..Len(sink) :
        (i < j /\ IsEntryLine(sink[i]) /\ IsEntryLine(sink[j])
           /\ sink[i].phase = sink[j].phase /\ sink[i].id = sink[j].id) =>
        (j = i + 1 /\ sink[i].kind = "req" /\ sink[j].kind = "text")

\* ------------------------------------------------------------------ C16
\* the pieces of str between the " AND " pieces
RECURSIVE SplitAtJoiner(_, _)
SplitAtJoiner(rest, cur) ==
    IF rest = <<>> THEN <<cur>>
    ELSE IF <<Head(rest)>> = AndJoiner
         THEN <<cur>> \o SplitAtJoiner(Tail(rest), <<>>)
         ELSE SplitAtJoiner(Tail(rest), Append(cur, Head(rest)))

ClausesOf(str) == IF str = <<>> THEN <<>> ELSE SplitAtJoiner(str, <<>>)

JoinersIn(str) == Len(SelectSeq(str, LAMBDA piece : <<piece>> = AndJoiner))

\* the five criteria in the fixed order, each with whether its field is
\* set and the clause it stands for
Criteria(f) ==
    << [set |-> f.Severity # "",
        clause |-> <<"severity", "=", "\"", f.Severity, "\"">>],
       [set |-> f.Since # 0,
        clause |-> <<"timestamp", ">=", "\"", "T" \o ToString(Now - f.Since), "\"">>],
       [set |-> f.SinceTime # ZeroTime,
        clause |-> <<"timestamp", ">=", "\"", "T" \o ToString(f.SinceTime), "\"">>],
       [set |-> f.ResourceType # "",
        clause |-> <<"resource.type", "=", "\"", f.ResourceType, "\"">>],
       [set |-> f.LogName # "",
        clause |-> <<"logName", "=", "\"", f.LogName, "\"">>] >>

RECURSIVE ClausesOfSet(_)
ClausesOfSet(criteria) ==
    IF criteria = <<>> THEN <<>>
    ELSE (IF Head(criteria).set THEN <<Head(criteria).clause>> ELSE <<>>)
             \o ClausesOfSet(Tail(criteria))

FilterFormatted == call = "formatFilter" /\ pc = "done"

\* C16: the result of formatFilter, cut at its " AND " pieces, is exactly
\* the clauses of the criteria whose field is set (non-empty, non-zero), in
\* the order severity, since, since-time, resource type, log name; it has
\* one joiner less than it has clauses, none at its start and none at its
\* end; a nil filter and a filter with no field set give the empty string.
C16_ClausesOfSetFieldsInOrder ==
    FilterFormatted =>
        LET expected == IF filter = <<>> THEN <<>> ELSE ClausesOfSet(Criteria(filter[1]))
        IN  /\ ClausesOf(filterStr) = expected
            /\ JoinersIn(filterStr) = (IF expected = <<>> THEN 0 ELSE Len(expected) - 1)
            /\ filterStr # <<>> =>
                  /\ <<Head(filterStr)>> # AndJoiner
                  /\ <<filterStr[Len(filterStr)]>> # AndJoiner
            /\ expected = <<>> => filterStr = <<>>

\* all five criteria set: five clauses, four joiners
C16_Witness ==
    /\ FilterFormatted /\ filter # <<>>
    /\ filter[1].Severity # "" /\ filter[1].Since # 0 /\ filter[1].SinceTime # ZeroTime
    /\ filter[1].ResourceType # "" /\ filter[1].LogName # ""
    /\ Len(ClausesOf(filterStr)) = 5 /\ JoinersIn(filterStr) = 4

\* ------------------------------------------------------------------ C17
\* C17: the listener never writes to the stream that is the data sink: its
\* message is not among the lines of out, so the lines of out are those of
\* the loops alone; and it cancels the context at most once.
C17_ListenerNeverWritesToSink ==
    /\ InterruptLine \notin Range(sink)
    /\ \A i \in 1..Len(sink) : sink[i].phase \in {"fetch", "tail"}

\* what holds of the listener: it writes its one message to os.Stdout,
\* which is out exactly when no output file was given, and it runs cancel()
\* once
ListenerWritesToStdoutOnce ==
    /\ InterruptLine \in Range(sink) => outIsStdout
    /\ InterruptLine \in Range(stdout) => ~outIsStdout
    /\ Len(SelectSeq(sink \o stdout, LAMBDA l : l = InterruptLine)) <= 1
    /\ lpc \in {"printed", "done"} <=> (InterruptLine \in Range(sink \o stdout))

\* ------------------------------------------------------------------ C18
\* C18: with a limit <= 0 the fetch never stops at its limit test, so a
\* fetch that ended by exhaustion has counted every entry the backend
\* yielded; and the tail never ends in LimitReached: when it has returned it
\* is Cancelled, Closed or Failed.
C18_NoLimitWhenNotPositive ==
    /\ (fetchCalls > 0 /\ fetchLimit <= 0) =>
          /\ fetchEnd # "limit"
          /\ fetchEnd = "Done" => gcounter = yielded
          /\ fetchState = "returned" => fetchEnd \in {"client", "Done", "error", "write"}
    /\ (tailCalls > 0 /\ tailLimit <= 0) =>
          /\ tailState # "LimitReached"
          /\ TailReturned => tailState \in {"Cancelled", "Closed", "Failed"}

\* --limit left at -1 with --follow: the fetch counted two entries up to
\* exhaustion, the tail has counted two more and is still streaming
C18_Witness ==
    /\ call = "fetchAndTailLogs" /\ limit < 0
    /\ fetchEnd = "Done" /\ gcounter = 2
    /\ tailState = "Streaming" /\ pc = "t_loop" /\ tcounter = 2

\* ------------------------------------------------------------------ C19
\* the tail returned in Failed without having called Recv: NewClient, the
\* opening of the stream or the Send failed
ConnectFailed == tailState = "Failed" /\ ~recvCalled

\* the lines of out that the fetch did not write
WrittenSinceFetch == SelectSeq(sink, LAMBDA l : l.phase # "fetch")

\* C19: the tail sends at most one subscribe request, naming the resource
\* projects/{projectID} and the filter, on a stream that is open and before
\* the first Recv; a tail that streams or has streamed has sent exactly
\* one; and when the opening of the stream or the Send fails the tail is
\* Failed with an error, no Recv was called and nothing was written to out.
C19_OneRequestAndFailedConnectWritesNothing ==
    /\ Len(sends) <= 1
    /\ sends # <<>> =>
          /\ sends[1] = [resourceNames |-> <<"projects/my-project">>,
                         filter |-> "severity = \"ERROR\""]
          /\ stream # "none"
    /\ recvCalled => Len(sends) = 1
    /\ tailState \in {"Streaming", "Cancelled", "Closed", "LimitReached"} => Len(sends) = 1
    /\ ConnectFailed => (tailErr # NoError /\ WrittenSinceFetch = <<>>)

\* what holds: the same with "nothing was written to out by the tail's own
\* flow" (the listener's message apart); a return from the opening or from
\* the Send is a return in Failed, and a failed connection stays as it is
SubscribeOnceAndFailedConnectIsFinal ==
    /\ [](/\ Len(sends) <= 1
          /\ sends # <<>> =>
                /\ sends[1] = [resourceNames |-> <<"projects/my-project">>,
                               filter |-> "severity = \"ERROR\""]
                /\ stream # "none"
          /\ recvCalled => Len(sends) = 1
          /\ tailState \in {"Streaming", "Cancelled", "Closed", "LimitReached"} =>
                Len(sends) = 1
          /\ ConnectFailed => (tailErr # NoError /\ TailWritten = <<>> /\ formatted = <<>>))
    /\ [][(pc \in {"t_open", "t_send"} /\ pc' \notin {"t_open", "t_send", "t_loop"}) =>
             (tailState' = "Failed" /\ tailErr' # NoError /\ ~recvCalled')]_vars
    /\ [][ConnectFailed =>
             (ConnectFailed' /\ tailErr' = tailErr /\ sends' = sends)]_vars

\* ------------------------------------------------------------------ C20
\* the tail is between two receives, or has just stopped at its limit
ReceiveProcessed ==
    \/ tailState = "Streaming" /\ pc = "t_loop"
    \/ tailState = "LimitReached"

\* C20 as stated: after every processed receive the count compared with
\* the limit is the number of entry lines the tail has written to out.
C20_CountIsLinesWritten ==
    ReceiveProcessed => tcounter = Len(TailEntryLines)

\* C20, amended: after every processed receive the count is the number of
\* entries received and formatted so far, and the entry lines of the tail in
\* out are what printTailLogEntry gives for those entries in order (no line,
\* one or two per entry, so at most twice the count); a response with no
\* entry changes neither the count nor out.
C20_CountIsEntriesFormatted ==
    /\ [](ReceiveProcessed =>
            /\ tcounter = received /\ tcounter = Len(formatted)
            /\ TailEntryLines = RenderTail(formatted, 1)
            /\ Len(TailEntryLines) <= 2 * tcounter)
    /\ [][(pc = "t_recv" /\ pc' # "t_recv" /\ lastRecv' = "batch" /\ batchLen' = 0) =>
             (tcounter' = tcounter /\ sink' = sink /\ pc' = "t_loop")]_vars

\* two entries counted, three lines written, then an empty response
C20_Witness ==
    /\ tailState = "Streaming" /\ pc = "t_loop"
    /\ lastRecv = "batch" /\ batchLen = 0
    /\ tcounter = 2 /\ Len(TailEntryLines) = 3

\* ------------------------------------------------------------------ C22
\* C22: formatting an entry never crashes the fetch: in no reachable state
\* has printLogEntry panicked; an entry with an HTTP request, its inner
\* Request nil included, gives a request line or an error value.
C22_FormattingNeverCrashes ==
    /\ fetchState # "panicked"
    /\ pc # "panic"

\* what holds of the crash: it happens inside printLogEntry, before the
\* entry is counted and before any line of it is written; the fetch returns
\* nothing, and only the deferred adminClient.Close() has run
CrashWritesNothingOfTheEntry ==
    fetchState = "panicked" =>
        /\ pc = "panic" /\ fetchEnd = "panic" /\ fetchErr = NoError
        /\ gcounter = yielded - 1
        /\ \A i \in 1..Len(sink) : sink[i].id # yielded
        /\ adminClient = "closed"

\* ------------------------------------------------------------------ C21
\* the listener's cancel() ran while the tail was Streaming
CancelledWhileStreaming == cancelWhen \in {"between", "blocked"}

\* C21: once cancel() has run during Streaming the tail reaches a terminal
\* state and returns; after the cancellation no further response is
\* received, so the entries formatted are at most those of the responses
\* already received.
C21_CancellationEndsTheTail ==
    /\ CancelledWhileStreaming ~> (TailReturned /\ pc = "done")
    /\ [][ctx = "cancelled" => received' = received]_vars
    /\ [](Len(formatted) <= received)

\* cancelled in the middle of a batch of two: the second entry was still
\* written, then the tail returned
C21_Witness ==
    /\ cancelWhen = "between" /\ TailReturned /\ pc = "done"
    /\ batchLen = 2 /\ batchIdx = 2 /\ Len(formatted) = 2 /\ received = 2
    /\ tailState = "Cancelled"

====
